---- MODULE Spec2Model ----
(***************************************************************************)
(* A model of ephemeris/shed_tools.py: InstallToolManager.install_tools    *)
(* and the helpers it calls.                                               *)
(*                                                                         *)
(* Python values are modelled as follows.                                  *)
(*   - a str is a tuple of tokens, so that `in`, startswith and endswith   *)
(*     are computed on its parts: <<"https://", "toolshed", "/">>;         *)
(*   - None is the reserved tuple <<"None">>, which no input uses;         *)
(*   - a dict is a function from its keys to values; a missing key is a    *)
(*     key outside its DOMAIN;                                             *)
(*   - a list of dicts built by the code holds REFERENCES: it is a tuple   *)
(*     of indices into the sequence that holds the dict objects, so that   *)
(*     two list items naming one object see each other's mutations;        *)
(*   - an element of a report list is [type |-> "str", val |-> key] or     *)
(*     [type |-> "dict", val |-> d].                                       *)
(***************************************************************************)
EXTENDS Integers, Sequences, FiniteSets, TLC

(***************************************************************************)
(* Bounds of the model.                                                    *)
(***************************************************************************)
\* the longest desired list given to install_tools
MaxTools == 1

(***************************************************************************)
(* Program constants.                                                      *)
(***************************************************************************)
\* wait_for_install(..., timeout=3600), in seconds
timeout == 3600
\* time.sleep(10), in seconds
SleepSeconds == 10

None == <<"None">>

\* the value "returned" by a function that returns None where a dict is expected
NoneObj == [NoneType |-> None]

default_toolshed == <<"https://", "toolshed.g2.bx.psu.edu", "/">>

default_err_msg ==
    <<"All repositories that you are attempting to install ",
      "have been previously installed.">>

(***************************************************************************)
(* str and dict primitives.                                                *)
(***************************************************************************)
\* Python's `needle in hay` on two str
Contains(needle, hay) ==
    \E i \in 1..(Len(hay) + 1) :
        /\ i + Len(needle) - 1 <= Len(hay)
        /\ SubSeq(hay, i, i + Len(needle) - 1) = needle

\* s.endswith(tok) for a one-token suffix
EndsWith(s, tok) == Len(s) > 0 /\ s[Len(s)] = tok

\* s.startswith('http'): the tokens that begin with these letters
StartsWithHttp(s) == Len(s) > 0 /\ s[1] \in {"http://", "https://"}

Has(d, k) == k \in DOMAIN d

\* d.get(k, default)
GetDefault(d, k, default) == IF k \in DOMAIN d THEN d[k] ELSE default

\* d.get(k)
Get(d, k) == GetDefault(d, k, None)

\* d[k] = v
Put(d, k, v) == [x \in (DOMAIN d) \cup {k} |-> IF x = k THEN v ELSE d[x]]

\* d.pop(k, None), for its effect on d
Pop(d, k) == [x \in (DOMAIN d) \ {k} |-> d[x]]

\* the keys of a dict in iteration order (insertion order; no formula below
\* depends on the order)
KeyOrder ==
    <<"name", "owner", "revision", "changeset_revision", "error">>

DictKeys(d) == SelectSeq(KeyOrder, LAMBDA k : k \in DOMAIN d)

\* list += d, for a dict d: list.extend(d) iterates d, that is, its KEYS
ListIAddDict(list, d) ==
    list \o [i \in 1..Len(DictKeys(d)) |-> [type |-> "str", val |-> DictKeys(d)[i]]]

Last(s) == s[Len(s)]

(***************************************************************************)
(* format_tool_shed_url                                                    *)
(***************************************************************************)
format_tool_shed_url(tool_shed_url) ==
    LET s1 == IF ~EndsWith(tool_shed_url, "/")
              THEN tool_shed_url \o <<"/">> ELSE tool_shed_url
    IN  IF ~StartsWithHttp(s1) THEN <<"https://">> \o s1 ELSE s1

(***************************************************************************)
(* complete_repo_information: [raised |-> TRUE] for the KeyError, else the *)
(* new dict.                                                               *)
(***************************************************************************)
complete_repo_information(tool, default_toolshed_url, require_tool_panel_info) ==
    IF ~Has(tool, "name") \/ ~Has(tool, "owner")
    THEN [raised |-> TRUE, repo |-> NoneObj]
    ELSE IF /\ require_tool_panel_info
            /\ Get(tool, "tool_panel_section_id") = None
            /\ Get(tool, "tool_panel_section_label") = None
            /\ ~Contains(<<"data_manager">>, tool["name"])
    THEN [raised |-> TRUE, repo |-> NoneObj]
    ELSE [raised |-> FALSE,
          repo |-> [name |-> tool["name"],
                    owner |-> tool["owner"],
                    tool_panel_section_id |-> Get(tool, "tool_panel_section_id"),
                    tool_panel_section_label |-> Get(tool, "tool_panel_section_label"),
                    tool_shed_url |-> format_tool_shed_url(
                        GetDefault(tool, "tool_shed_url", default_toolshed_url)),
                    changeset_revision |-> Get(tool, "changeset_revision")]]

(***************************************************************************)
(* get_changeset_revisions: installable_revisions is the registry's        *)
(* answer, used only when the registry is called.                          *)
(***************************************************************************)
NeedsRegistry(repository, force_latest) ==
    Get(repository, "changeset_revision") = None \/ force_latest

\* installable_revisions[0] in the place of installable_revisions[-1]
get_changeset_revisions_First(repository, force_latest, installable_revisions) ==
    IF NeedsRegistry(repository, force_latest)
    THEN IF Len(installable_revisions) = 0
         THEN [called |-> TRUE, result |-> NoneObj]
         ELSE [called |-> TRUE,
               result |-> Put(repository, "changeset_revision",
                              installable_revisions[1])]
    ELSE [called |-> FALSE, result |-> repository]

get_changeset_revisions(repository, force_latest, installable_revisions) ==
    IF NeedsRegistry(repository, force_latest)
    THEN IF Len(installable_revisions) = 0
         THEN [called |-> TRUE, result |-> NoneObj]
         ELSE [called |-> TRUE,
               result |-> Put(repository, "changeset_revision",
                              Last(installable_revisions))]
    ELSE [called |-> FALSE, result |-> repository]

(***************************************************************************)
(* the_same_repository.  Every dict compared here carries a tool_shed_url  *)
(* (complete_repo_information sets it, the inventory reports it), so the   *)
(* TypeError of `None in ...` does not arise.                              *)
(***************************************************************************)
ToolShedOf(info) == GetDefault(info, "tool_shed", Get(info, "tool_shed_url"))

\* `t1ts in t2ts` alone, without `or t2ts in t1ts`
the_same_repository_OneWay(repo_1_info, repo_2_info) ==
    /\ Get(repo_1_info, "changeset_revision") = Get(repo_2_info, "changeset_revision")
    /\ Get(repo_1_info, "name") = Get(repo_2_info, "name")
    /\ Get(repo_1_info, "owner") = Get(repo_2_info, "owner")
    /\ Contains(ToolShedOf(repo_1_info), ToolShedOf(repo_2_info))

the_same_repository(repo_1_info, repo_2_info) ==
    /\ Get(repo_1_info, "changeset_revision") = Get(repo_2_info, "changeset_revision")
    /\ Get(repo_1_info, "name") = Get(repo_2_info, "name")
    /\ Get(repo_1_info, "owner") = Get(repo_2_info, "owner")
    /\ \/ Contains(ToolShedOf(repo_1_info), ToolShedOf(repo_2_info))
       \/ Contains(ToolShedOf(repo_2_info), ToolShedOf(repo_1_info))

(***************************************************************************)
(* _flatten_repo_info: the dicts of `repositories` are mutated in place    *)
(* and the list returned holds references to them.  The result is          *)
(* [heap |-> the dicts afterwards, flattened_list |-> the references].     *)
(***************************************************************************)
RECURSIVE FlattenRevisions(_, _, _, _)
\* for revision in revisions: repo_info['changeset_revision'] = revision;
\*                            flattened_list.append(repo_info)
FlattenRevisions(st, i, revisions, k) ==
    IF k > Len(revisions) THEN st
    ELSE FlattenRevisions(
            [heap |-> [st.heap EXCEPT
                         ![i] = Put(@, "changeset_revision", revisions[k])],
             flattened_list |-> Append(st.flattened_list, i)],
            i, revisions, k + 1)

RECURSIVE FlattenFrom(_, _)
FlattenFrom(st, i) ==
    IF i > Len(st.heap) THEN st
    ELSE IF Has(st.heap[i], "revisions")
    THEN FlattenFrom(
            FlattenRevisions(
                [st EXCEPT !.heap[i] = Pop(@, "revisions")],
                i, st.heap[i]["revisions"], 1),
            i + 1)
    ELSE FlattenFrom([st EXCEPT !.flattened_list = Append(@, i)], i + 1)

_flatten_repo_info(repositories) ==
    FlattenFrom([heap |-> repositories, flattened_list |-> <<>>], 1)

\* the list as its reader sees it: each reference followed
Deref(heap, refs) == [k \in 1..Len(refs) |-> heap[refs[k]]]

(***************************************************************************)
(* InstallToolManager.filter_installed_repos: for each repo, for each      *)
(* entry of the inventory, one append to one of the two lists.  `repos`    *)
(* holds references into `heap`; the lists returned hold references too.   *)
(***************************************************************************)
filter_installed_repos(heap, repos, installed_repos) ==
    LET m == Len(installed_repos)
        pairs == [k \in 1..(Len(repos) * m) |->
                    [repo |-> repos[((k - 1) \div m) + 1],
                     inst |-> ((k - 1) % m) + 1]]
        same(p) == the_same_repository(installed_repos[p.inst], heap[p.repo])
        proj(s) == [k \in 1..Len(s) |-> s[k].repo]
    IN  [not_installed_repos |-> proj(SelectSeq(pairs, LAMBDA p : ~same(p))),
         already_installed_repos |-> proj(SelectSeq(pairs, same))]

(***************************************************************************)
(* The dicts returned by the log_repository_install_* functions.           *)
(***************************************************************************)
EmptyStr == << >>

log_repository_install_error(repository, msg) ==
    [name |-> GetDefault(repository, "name", EmptyStr),
     owner |-> GetDefault(repository, "owner", EmptyStr),
     revision |-> GetDefault(repository, "changeset_revision", EmptyStr),
     error |-> msg]

log_repository_install_success(repository) ==
    [name |-> repository["name"],
     owner |-> repository["owner"],
     revision |-> repository["changeset_revision"]]

log_repository_install_skip(repository) ==
    [name |-> repository["name"],
     owner |-> repository["owner"],
     changeset_revision |-> repository["changeset_revision"]]

(***************************************************************************)
(* install_tools, the except branch: which of the three cases a            *)
(* ConnectionError e falls in.                                             *)
(***************************************************************************)
\* the two tests in the other order: the 504 test first
ClassifyError_504First(e) ==
    IF Contains(<<"504">>, e.message) THEN "timeout"
    ELSE IF Contains(default_err_msg, e.body) THEN "duplicate"
    ELSE "other"

ClassifyError(e) ==
    IF Contains(default_err_msg, e.body) THEN "duplicate"
    ELSE IF Contains(<<"504">>, e.message) THEN "timeout"
    ELSE "other"

(***************************************************************************)
(* wait_for_install, the for loop over one fetched list: whether it        *)
(* returned, with what, and how many time.sleep(10) it made.               *)
(***************************************************************************)
RECURSIVE ScanRepoList(_, _, _, _)
ScanRepoList(installed_repo_list, repository, k, sleeps) ==
    IF k > Len(installed_repo_list)
    THEN [returned |-> FALSE, value |-> FALSE, sleeps |-> sleeps]
    ELSE LET installing_repo == installed_repo_list[k]
         IN  IF /\ repository["name"] = installing_repo["name"]
                /\ installing_repo["owner"] = repository["owner"]
             THEN IF installing_repo["status"] = <<"Installed">>
                  THEN [returned |-> TRUE, value |-> TRUE, sleeps |-> sleeps]
                  ELSE IF installing_repo["status"] = <<"Error">>
                  THEN [returned |-> TRUE, value |-> FALSE, sleeps |-> sleeps]
                  ELSE ScanRepoList(installed_repo_list, repository, k + 1, sleeps + 1)
             ELSE ScanRepoList(installed_repo_list, repository, k + 1, sleeps)

(***************************************************************************)
(* The inputs of a run, drawn from small sets.                             *)
(***************************************************************************)
\* the longest list get_repositories() answers with during the polling
MaxPollEntries == 2

R1 == <<"r1">>
R2 == <<"r2">>
NameX == <<"x">>
NameY == <<"y">>
NameDM == <<"data_manager", "_z">>
OwnerO == <<"o">>
ShedShort == <<"toolshed.g2.bx.psu.edu">>

\* the desired package specs a caller may give
DesiredSpecs ==
    { \* two revisions listed
      [name |-> NameX, owner |-> OwnerO, tool_panel_section_id |-> <<"sec">>,
       revisions |-> <<R1, R2>>],
      \* one revision given, registry URL without scheme and slash
      [name |-> NameX, owner |-> OwnerO, tool_panel_section_label |-> <<"Label">>,
       tool_shed_url |-> ShedShort, changeset_revision |-> R1],
      \* no revision: the registry decides
      [name |-> NameY, owner |-> OwnerO, tool_panel_section_id |-> <<"sec">>],
      \* no panel section, not a data manager: invalid
      [name |-> NameX, owner |-> OwnerO, changeset_revision |-> R1],
      \* no panel section, a data manager
      [name |-> NameDM, owner |-> OwnerO, changeset_revision |-> R2],
      \* no name: invalid
      [owner |-> OwnerO, tool_panel_section_id |-> <<"sec">>,
       changeset_revision |-> R1],
      \* an empty list of revisions
      [name |-> NameY, owner |-> OwnerO, tool_panel_section_id |-> <<"sec">>,
       revisions |-> << >>] }

ToolLists == UNION { [1..n -> DesiredSpecs] : n \in 0..MaxTools }

\* what GiToToolYaml(...).tool_list.get("tools") may answer: the host's
\* inventory, one dict per repository with its revisions listed
Inventories ==
    { << >>,
      << [name |-> NameX, owner |-> OwnerO, tool_shed_url |-> ShedShort,
          tool_panel_section_label |-> <<"Label">>, revisions |-> <<R1>>] >>,
      << [name |-> NameX, owner |-> OwnerO, tool_shed_url |-> ShedShort,
          tool_panel_section_label |-> <<"Label">>, revisions |-> <<R1, R2>>] >>,
      << [name |-> NameX, owner |-> OwnerO, tool_shed_url |-> ShedShort,
          tool_panel_section_label |-> <<"Label">>, revisions |-> <<R1>>],
         [name |-> NameDM, owner |-> OwnerO, tool_shed_url |-> ShedShort,
          revisions |-> <<R1>>] >> }

\* what get_ordered_installable_revisions may answer
RegistryAnswers == { << >>, <<R1>>, <<R1, R2>> }

\* what tool_shed_client.install_repository_revision may do: return a
\* payload, or raise a ConnectionError with a body and a message
ErrorBodies == { <<"Error: ">> \o default_err_msg, <<"Internal Server Error">> }
ErrorMessages == { <<"Unexpected HTTP status code: ", "504">>,
                   <<"Unexpected HTTP status code: ", "500">> }
InstallResponses ==
    { [raised |-> FALSE, status |-> <<"ok">>] }
    \cup { [raised |-> TRUE, body |-> b, message |-> m] :
             b \in ErrorBodies, m \in ErrorMessages }

\* what tool_shed_client.get_repositories() may answer during the polling
PollEntries(repository) ==
    { [name |-> repository["name"], owner |-> repository["owner"], status |-> s] :
        s \in { <<"Installed">>, <<"Error">>, <<"Installing">> } }
    \cup { [name |-> <<"other">>, owner |-> repository["owner"],
            status |-> <<"Installed">>] }

PollAnswers(repository) ==
    UNION { [1..n -> PollEntries(repository)] : n \in 0..MaxPollEntries }

\* ... or it raises a ConnectionError
FetchRaises == << [ConnectionError |-> TRUE] >>

FetchOutcomes(repository) == PollAnswers(repository) \cup { FetchRaises }

\* how long one get_repositories() call may take, in seconds: the clock of
\* wait_for_install advances by this at each fetch and by SleepSeconds at
\* each time.sleep(10)
FetchSeconds == { 1800, 3600 }

(***************************************************************************)
(* The state of one call of install_tools.                                 *)
(***************************************************************************)
VARIABLES
    input,                      \* the caller's list as it was given
    log,                        \* whether a logger was given (log is not None)
    force_latest_revision,
    installed_tools,            \* the host's inventory (self.installed_tools)
    tools,                      \* the caller's dict objects, as they are now
    flattened_repos,            \* references into tools
    repository_list_with_none,  \* the dict objects made by the normalisation
    not_installed_repos,        \* references into repository_list_with_none
    already_installed_repos,    \* references into repository_list_with_none
    counter,
    total_num_repositories,
    installed_repositories,
    skipped_repositories,
    errored_repositories,
    pc,                         \* the statement the run is at
    idx,                        \* the index of the loop the run is in
    exc,                        \* the exception that ended the run, or "none"
    conn_err,                   \* the ConnectionError e being handled
    elapsed,                    \* in wait_for_install: now - start, in seconds
    last_sleeps,                \* in wait_for_install: the time.sleep(10)
                                \* calls made since the last fetch
    wait_result,                \* why the last wait_for_install returned
    calls,                      \* the install calls the host has received
    registry_calls,             \* the registry calls made
    inventory_fetches,          \* the number of reads of self.installed_repos
    outcomes                    \* per flattened unit, the outcomes it received

vars == << input, log, force_latest_revision, installed_tools, tools,
           flattened_repos, repository_list_with_none, not_installed_repos,
           already_installed_repos, counter, total_num_repositories,
           installed_repositories, skipped_repositories, errored_repositories,
           pc, idx, exc, conn_err, elapsed, last_sleeps, wait_result, calls,
           registry_calls, inventory_fetches, outcomes >>

inputs == << input, log, force_latest_revision, installed_tools >>

NoError == [raised |-> FALSE, status |-> <<"ok">>]

Init ==
    /\ input \in ToolLists
    /\ log \in BOOLEAN
    /\ force_latest_revision \in BOOLEAN
    /\ installed_tools \in Inventories
    /\ tools = input
    /\ flattened_repos = << >>
    /\ repository_list_with_none = << >>
    /\ not_installed_repos = << >>
    /\ already_installed_repos = << >>
    /\ counter = 0
    /\ total_num_repositories = 0
    /\ installed_repositories = << >>
    /\ skipped_repositories = << >>
    /\ errored_repositories = << >>
    /\ pc = "called"
    /\ idx = 0
    /\ exc = "none"
    /\ conn_err = NoError
    /\ elapsed = 0
    /\ last_sleeps = 0
    /\ wait_result = "none"
    /\ calls = << >>
    /\ registry_calls = << >>
    /\ inventory_fetches = 0
    /\ outcomes = << >>

\* self.installed_repos
installed_repos ==
    LET f == _flatten_repo_info(installed_tools)
    IN  Deref(f.heap, f.flattened_list)

\* the list comprehension without its `if repo is not None`
repository_list_AllUnits ==
    [k \in 1..Len(repository_list_with_none) |-> k]

\* repository_list: the references to the dicts that are not None
repository_list ==
    SelectSeq([k \in 1..Len(repository_list_with_none) |-> k],
              LAMBDA k : repository_list_with_none[k] # NoneObj)

AddOutcome(o, k, what) == [o EXCEPT ![k] = Append(@, what)]

(***************************************************************************)
(* install_tools, lines 92-102: the empty-list check, the locals, and the  *)
(* flattening of the desired list.                                         *)
(***************************************************************************)
\* the list is flattened whatever its length: `if not tools` left out
Begin_NoEmptyCheck ==
    /\ pc = "called" /\ exc = "none"
    /\ LET f == _flatten_repo_info(tools)
       IN  /\ tools' = f.heap
           /\ flattened_repos' = f.flattened_list
           /\ total_num_repositories' = Len(tools)
           /\ outcomes' = [k \in 1..Len(f.flattened_list) |-> << >>]
           /\ pc' = IF Len(f.flattened_list) = 0 THEN "filter" ELSE "normalize"
           /\ idx' = 1
           /\ exc' = "none"
    /\ UNCHANGED << inputs, repository_list_with_none, not_installed_repos,
                    already_installed_repos, counter, installed_repositories,
                    skipped_repositories, errored_repositories, conn_err,
                    elapsed, last_sleeps, wait_result, calls, registry_calls,
                    inventory_fetches >>

Begin ==
    /\ pc = "called" /\ exc = "none"
    /\ IF Len(tools) = 0
       THEN /\ exc' = "ValueError"
            /\ UNCHANGED << tools, flattened_repos, total_num_repositories,
                            outcomes, pc, idx >>
       ELSE LET f == _flatten_repo_info(tools)
            IN  /\ tools' = f.heap
                /\ flattened_repos' = f.flattened_list
                /\ total_num_repositories' = Len(tools)
                /\ outcomes' = [k \in 1..Len(f.flattened_list) |-> << >>]
                /\ pc' = IF Len(f.flattened_list) = 0 THEN "filter" ELSE "normalize"
                /\ idx' = 1
                /\ exc' = "none"
    /\ UNCHANGED << inputs, repository_list_with_none, not_installed_repos,
                    already_installed_repos, counter, installed_repositories,
                    skipped_repositories, errored_repositories, conn_err,
                    elapsed, last_sleeps, wait_result, calls, registry_calls,
                    inventory_fetches >>

(***************************************************************************)
(* install_tools, lines 105-116: set_defaults_in_repo_information on one   *)
(* element of flattened_repos.  In the except branch the call              *)
(* log_repository_install_error(repository, start, e.message) reads        *)
(* `start`, which install_tools binds only at line 130: NameError.         *)
(***************************************************************************)
Normalize ==
    /\ pc = "normalize" /\ exc = "none"
    /\ LET repository == tools[flattened_repos[idx]]
           c == complete_repo_information(repository, default_toolshed, TRUE)
       IN  IF c.raised
           THEN /\ exc' = "NameError"
                /\ UNCHANGED << repository_list_with_none, registry_calls,
                                outcomes, pc, idx >>
           ELSE \E installable_revisions \in RegistryAnswers :
                  LET g == get_changeset_revisions(c.repo, force_latest_revision,
                                                   installable_revisions)
                  IN  /\ repository_list_with_none' =
                            Append(repository_list_with_none, g.result)
                      /\ registry_calls' =
                            IF g.called
                            THEN Append(registry_calls,
                                        [name |-> c.repo["name"],
                                         owner |-> c.repo["owner"],
                                         answer |-> installable_revisions])
                            ELSE registry_calls
                      /\ outcomes' = IF g.result = NoneObj
                                     THEN AddOutcome(outcomes, idx, "not_found")
                                     ELSE outcomes
                      /\ idx' = idx + 1
                      /\ pc' = IF idx = Len(flattened_repos)
                               THEN "filter" ELSE "normalize"
                      /\ exc' = "none"
    /\ UNCHANGED << inputs, tools, flattened_repos, not_installed_repos,
                    already_installed_repos, counter, total_num_repositories,
                    installed_repositories, skipped_repositories,
                    errored_repositories, conn_err, elapsed, last_sleeps,
                    wait_result, calls, inventory_fetches >>

(***************************************************************************)
(* install_tools, line 119: the filter.  self.installed_repos is read once *)
(* per repo.                                                               *)
(***************************************************************************)
Filter ==
    /\ pc = "filter" /\ exc = "none"
    /\ LET r == filter_installed_repos(repository_list_with_none,
                                       repository_list, installed_repos)
       IN  /\ not_installed_repos' = r.not_installed_repos
           /\ already_installed_repos' = r.already_installed_repos
           /\ pc' = IF Len(r.already_installed_repos) > 0 THEN "skip"
                    ELSE IF Len(r.not_installed_repos) > 0 THEN "install"
                    ELSE "summary"
    /\ inventory_fetches' = inventory_fetches + Len(repository_list)
    /\ idx' = 1
    /\ UNCHANGED << inputs, tools, flattened_repos, repository_list_with_none,
                    counter, total_num_repositories, installed_repositories,
                    skipped_repositories, errored_repositories, exc, conn_err,
                    elapsed, last_sleeps, wait_result, calls, registry_calls, outcomes >>

(***************************************************************************)
(* install_tools, lines 121-123: one iteration of the skip loop.           *)
(***************************************************************************)
SkipRepo ==
    /\ pc = "skip" /\ exc = "none"
    /\ LET r == already_installed_repos[idx]
           skipped_repo == repository_list_with_none[r]
       IN  /\ counter' = counter + 1
           /\ skipped_repositories' =
                 ListIAddDict(skipped_repositories,
                              log_repository_install_skip(skipped_repo))
           /\ outcomes' = AddOutcome(outcomes, r, "skipped")
    /\ IF idx = Len(already_installed_repos)
       THEN /\ pc' = IF Len(not_installed_repos) > 0 THEN "install" ELSE "summary"
            /\ idx' = 1
       ELSE /\ pc' = "skip"
            /\ idx' = idx + 1
    /\ UNCHANGED << inputs, tools, flattened_repos, repository_list_with_none,
                    not_installed_repos, already_installed_repos,
                    total_num_repositories, installed_repositories,
                    errored_repositories, exc, conn_err, elapsed, last_sleeps,
                    wait_result, calls, registry_calls, inventory_fetches >>

(***************************************************************************)
(* The end of one iteration of the install loop: on to the next repo, or   *)
(* to the summary after the last one.                                      *)
(***************************************************************************)
NextRepo ==
    /\ pc' = IF idx = Len(not_installed_repos) THEN "summary" ELSE "install"
    /\ idx' = idx + 1

\* bool(v) of a str or None
Truthy(v) == v # None /\ v # EmptyStr

\* the label copied under its new key and left under the old one
BioblendSignature_KeepLabel(repository) ==
    Put(repository, "new_tool_panel_section_label",
        repository["tool_panel_section_label"])

\* install_repository_revision, line 210: the dict as it is passed to the host
BioblendSignature(repository) ==
    Put(Pop(repository, "tool_panel_section_label"),
        "new_tool_panel_section_label", repository["tool_panel_section_label"])

(***************************************************************************)
(* install_tools, lines 128-161: one iteration of the install loop, up to  *)
(* the return of the install call and the handling of its result; a 504    *)
(* enters wait_for_install.                                                *)
(*   line 131: log_repository_install_start calls log.debug whatever log   *)
(*     is (AttributeError on None) and reads                               *)
(*     repository['tool_panel_section_id'] or                              *)
(*     repository['tool_panel_section_label'];                             *)
(*   line 210: repository.pop('tool_panel_section_label') raises KeyError  *)
(*     on a dict that an earlier iteration has already passed to the host. *)
(***************************************************************************)
InstallRepo ==
    /\ pc = "install" /\ exc = "none"
    /\ counter' = counter + 1
    /\ LET r == not_installed_repos[idx]
           repository == repository_list_with_none[r]
       IN  IF ~log
           THEN /\ exc' = "AttributeError"
                /\ UNCHANGED << repository_list_with_none, installed_repositories,
                                errored_repositories, pc, idx, conn_err, calls,
                                outcomes >>
           ELSE IF \/ /\ ~Truthy(repository["tool_panel_section_id"])
                      /\ ~Has(repository, "tool_panel_section_label")
                   \/ ~Has(repository, "tool_panel_section_label")
           THEN /\ exc' = "KeyError"
                /\ UNCHANGED << repository_list_with_none, installed_repositories,
                                errored_repositories, pc, idx, conn_err, calls,
                                outcomes >>
           ELSE \E response \in InstallResponses :
                  LET kwargs == BioblendSignature(repository)
                  IN  /\ repository_list_with_none' =
                            [repository_list_with_none EXCEPT ![r] = kwargs]
                      /\ calls' = Append(calls, [repository |-> r,
                                                 kwargs |-> kwargs,
                                                 response |-> response])
                      /\ exc' = "none"
                      /\ IF ~response.raised
                         THEN /\ installed_repositories' =
                                    ListIAddDict(installed_repositories,
                                                 log_repository_install_success(kwargs))
                              /\ outcomes' = AddOutcome(outcomes, r, "succeeded")
                              /\ NextRepo
                              /\ UNCHANGED << errored_repositories, conn_err >>
                         ELSE IF ClassifyError(response) = "duplicate"
                         THEN /\ outcomes' = AddOutcome(outcomes, r, "duplicate")
                              /\ NextRepo
                              /\ UNCHANGED << installed_repositories,
                                              errored_repositories, conn_err >>
                         ELSE IF ClassifyError(response) = "timeout"
                         THEN /\ conn_err' = response
                              /\ pc' = "poll"
                              /\ UNCHANGED << installed_repositories,
                                              errored_repositories, idx, outcomes >>
                         ELSE /\ errored_repositories' =
                                    ListIAddDict(errored_repositories,
                                                 log_repository_install_error(
                                                     kwargs, response.body))
                              /\ outcomes' = AddOutcome(outcomes, r, "failed")
                              /\ NextRepo
                              /\ UNCHANGED << installed_repositories, conn_err >>
    /\ elapsed' = 0
    /\ last_sleeps' = 0
    /\ wait_result' = "none"
    /\ UNCHANGED << inputs, tools, flattened_repos, not_installed_repos,
                    already_installed_repos, total_num_repositories,
                    skipped_repositories, registry_calls, inventory_fetches >>

(***************************************************************************)
(* install_tools, lines 146-155: what follows the return of                *)
(* wait_for_install.                                                       *)
(***************************************************************************)
AfterWait(success, why) ==
    LET r == not_installed_repos[idx]
        repository == repository_list_with_none[r]
    IN  /\ IF success
           THEN /\ installed_repositories' =
                      ListIAddDict(installed_repositories,
                                   log_repository_install_success(repository))
                /\ outcomes' = AddOutcome(outcomes, r, "succeeded")
                /\ UNCHANGED errored_repositories
           ELSE /\ errored_repositories' =
                      ListIAddDict(errored_repositories,
                                   log_repository_install_error(
                                       repository, conn_err.body))
                /\ outcomes' = AddOutcome(outcomes, r, "failed")
                /\ UNCHANGED installed_repositories
        /\ conn_err' = NoError
        /\ wait_result' = why
        /\ elapsed' = 0
        /\ last_sleeps' = 0
        /\ NextRepo

(***************************************************************************)
(* wait_for_install, lines 230-245: one iteration of the while loop: the   *)
(* fetch, which takes some time and may raise a ConnectionError, and the   *)
(* for loop over what it answered.                                         *)
(***************************************************************************)
PollIteration ==
    /\ pc = "poll" /\ exc = "none"
    /\ elapsed < timeout
    /\ \E d \in FetchSeconds,
          installed_repo_list \in
              FetchOutcomes(repository_list_with_none[not_installed_repos[idx]]) :
          LET repository == repository_list_with_none[not_installed_repos[idx]]
              scan == IF installed_repo_list = FetchRaises
                      THEN [returned |-> FALSE, value |-> FALSE, sleeps |-> 1]
                      ELSE ScanRepoList(installed_repo_list, repository, 1, 0)
          IN  IF scan.returned
              THEN AfterWait(scan.value,
                             IF scan.value THEN "Installed" ELSE "Error")
              ELSE /\ elapsed' = elapsed + d + SleepSeconds * scan.sleeps
                   /\ last_sleeps' = scan.sleeps
                   /\ UNCHANGED << installed_repositories, errored_repositories,
                                   outcomes, conn_err, wait_result, pc, idx >>
    /\ UNCHANGED << inputs, tools, flattened_repos, repository_list_with_none,
                    not_installed_repos, already_installed_repos, counter,
                    total_num_repositories, skipped_repositories, exc, calls,
                    registry_calls, inventory_fetches >>

(***************************************************************************)
(* wait_for_install, lines 230 and 246: the budget is used up, the loop    *)
(* ends and the function returns False.                                    *)
(***************************************************************************)
PollTimeout ==
    /\ pc = "poll" /\ exc = "none"
    /\ elapsed >= timeout
    /\ AfterWait(FALSE, "timeout")
    /\ UNCHANGED << inputs, tools, flattened_repos, repository_list_with_none,
                    not_installed_repos, already_installed_repos, counter,
                    total_num_repositories, skipped_repositories, exc, calls,
                    registry_calls, inventory_fetches >>

(***************************************************************************)
(* install_tools, lines 163-190: the summary and the return.               *)
(*   line 164: log.info on None raises AttributeError;                     *)
(*   lines 166-183: t['name'] on an element that is a str raises TypeError;*)
(*   line 187: namedtuple("InstallResults", [<one string holding the three *)
(*     names and commas>]) raises ValueError: not a valid field name.      *)
(***************************************************************************)
HasStr(list) == \E i \in 1..Len(list) : list[i].type = "str"

Summary ==
    /\ pc = "summary" /\ exc = "none"
    /\ exc' = IF ~log THEN "AttributeError"
              ELSE IF \/ HasStr(installed_repositories)
                      \/ HasStr(skipped_repositories)
                      \/ HasStr(errored_repositories)
              THEN "TypeError"
              ELSE "ValueError"
    /\ UNCHANGED << inputs, tools, flattened_repos, repository_list_with_none,
                    not_installed_repos, already_installed_repos, counter,
                    total_num_repositories, installed_repositories,
                    skipped_repositories, errored_repositories, pc, idx,
                    conn_err, elapsed, last_sleeps, wait_result, calls, registry_calls,
                    inventory_fetches, outcomes >>

Next ==
    \/ Begin
    \/ Normalize
    \/ Filter
    \/ SkipRepo
    \/ InstallRepo
    \/ PollIteration
    \/ PollTimeout
    \/ Summary

Spec == Init /\ [][Next]_vars

(***************************************************************************)
(* Vocabulary of the properties.                                           *)
(***************************************************************************)
\* the run has ended (install_tools never returns: see Summary)
Terminated == exc # "none"

\* the flattened list as install_tools reads it
FlattenedUnits == Deref(tools, flattened_repos)

\* what flattening is documented to emit for one desired spec: one copy per
\* listed revision, or the spec itself
CopiesPerRevision(spec) ==
    IF Has(spec, "revisions")
    THEN [k \in 1..Len(spec["revisions"]) |->
            Put(Pop(spec, "revisions"), "changeset_revision", spec["revisions"][k])]
    ELSE << spec >>

RECURSIVE CopiesFrom(_, _)
CopiesFrom(list, i) ==
    IF i > Len(list) THEN << >>
    ELSE CopiesPerRevision(list[i]) \o CopiesFrom(list, i + 1)

\* a spec that passes complete_repo_information
ValidSpec(spec) == ~complete_repo_information(spec, default_toolshed, TRUE).raised

\* a run with a logger whose desired specs are all valid
CleanRun == log /\ \A i \in 1..Len(input) : ValidSpec(input[i])

Occurrences(seq, x) == Cardinality({ k \in 1..Len(seq) : seq[k] = x })

\* the filter has run
Filtered == pc \in { "skip", "install", "poll", "summary" }

\* some entry of the inventory is the same repository as the unit r
MatchesInventory(r) ==
    \E k \in 1..Len(installed_repos) :
        the_same_repository(installed_repos[k], repository_list_with_none[r])

\* the step is an install call answered by a ConnectionError
RaisedInstallCall ==
    /\ Len(calls') = Len(calls) + 1
    /\ Last(calls').response.raised

\* the record of a unit in the installed list
InstalledRecord(repository) ==
    [type |-> "dict", val |-> log_repository_install_success(repository)]

\* the record of a unit in the errored list
ErroredRecord(repository, msg) ==
    [type |-> "dict", val |-> log_repository_install_error(repository, msg)]

\* the unit the install loop handled last
HandledUnit == repository_list_with_none[not_installed_repos[idx - 1]]

(***************************************************************************)
(* C1.  When a run on a non-empty desired list has ended, every flattened  *)
(* unit has received exactly one of the outcomes invalid, not found,       *)
(* skipped, duplicate, succeeded, failed (stated for runs with a logger    *)
(* and valid specs, where no other failure interferes).                    *)
(***************************************************************************)
C1_EveryUnitOneOutcome ==
    (Terminated /\ pc # "called" /\ CleanRun)
        => \A k \in 1..Len(flattened_repos) : Len(outcomes[k]) = 1

(***************************************************************************)
(* C2.  After the filter every resolved unit is in exactly one of          *)
(* not_installed_repos and already_installed_repos, exactly once: in       *)
(* already_installed_repos iff some inventory entry is the same            *)
(* repository.                                                             *)
(***************************************************************************)
C2_FilterPartitions ==
    Filtered =>
        \A j \in 1..Len(repository_list) :
            LET r == repository_list[j]
            IN  /\ Occurrences(not_installed_repos \o already_installed_repos, r) = 1
                /\ Occurrences(already_installed_repos, r) = 1 <=> MatchesInventory(r)

(***************************************************************************)
(* C3.  The flattened list is, in input order, one unit per listed         *)
(* revision of each spec, the i-th carrying the i-th revision and          *)
(* otherwise equal to the spec, and each spec without revisions unchanged. *)
(***************************************************************************)
C3_FlattenOnePerRevision ==
    pc # "called" => FlattenedUnits = CopiesFrom(input, 1)

(***************************************************************************)
(* C4.  With an empty inventory and no registry resolution, a run that     *)
(* reaches its end has issued one install call per flattened unit, in      *)
(* flattened order.                                                        *)
(***************************************************************************)
C4_EmptyInventoryInstallsAll ==
    (/\ Terminated /\ pc = "summary" /\ CleanRun
     /\ installed_tools = << >>
     /\ registry_calls = << >>)
        => /\ Len(calls) = Len(CopiesFrom(input, 1))
           /\ \A k \in 1..Len(calls) :
                 calls[k].kwargs["changeset_revision"] =
                     CopiesFrom(input, 1)[k]["changeset_revision"]

(***************************************************************************)
(* C5.  Once the skip loop is over, a unit that matches an inventory entry *)
(* has been skipped once, and no install call is ever issued for it.       *)
(***************************************************************************)
C5_MatchingUnitSkipped ==
    (pc \in { "install", "poll", "summary" } /\ CleanRun)
        => \A j \in 1..Len(repository_list) :
              LET r == repository_list[j]
              IN  MatchesInventory(r)
                    => /\ outcomes[r] = << "skipped" >>
                       /\ \A k \in 1..Len(calls) : calls[k].repository # r

(***************************************************************************)
(* C6.  A unit that fails normalisation does not abort the run: the run    *)
(* never ends in the normalisation.                                        *)
(***************************************************************************)
C6_InvalidUnitDoesNotAbort ==
    ~(pc = "normalize" /\ Terminated)

(***************************************************************************)
(* C7.  An install call answered by a ConnectionError that is neither the  *)
(* duplicate phrase nor a 504 appends one record with the error body to    *)
(* the errored list, leaves the other two lists alone and goes on to the   *)
(* next unit.                                                              *)
(***************************************************************************)
C7_OtherErrorRecorded ==
    [][ (/\ RaisedInstallCall
         /\ ~Contains(default_err_msg, Last(calls').response.body)
         /\ ~Contains(<<"504">>, Last(calls').response.message))
        => /\ errored_repositories' =
                 Append(errored_repositories,
                        ErroredRecord(Last(calls').kwargs, Last(calls').response.body))
           /\ installed_repositories' = installed_repositories
           /\ skipped_repositories' = skipped_repositories
           /\ exc' = "none"
           /\ pc' \in { "install", "summary" }
           /\ idx' = idx + 1 ]_vars

(***************************************************************************)
(* C8.  An install call answered by a ConnectionError whose body contains  *)
(* the duplicate phrase leaves the three report lists unchanged, and the   *)
(* run goes on with the next unit (or to the summary after the last one).  *)
(***************************************************************************)
C8_DuplicateLeavesListsUnchanged ==
    [][ (/\ RaisedInstallCall
         /\ Contains(default_err_msg, Last(calls').response.body))
        => /\ installed_repositories' = installed_repositories
           /\ skipped_repositories' = skipped_repositories
           /\ errored_repositories' = errored_repositories
           /\ exc' = "none"
           /\ pc' = IF idx = Len(not_installed_repos) THEN "summary" ELSE "install"
           /\ idx' = idx + 1 ]_vars

\* a duplicate answer has been handled and the run is at the next unit
C8_Witness ==
    /\ pc = "install" /\ exc = "none"
    /\ idx > 1
    /\ Len(calls) > 0
    /\ Last(calls).repository = not_installed_repos[idx - 1]
    /\ Last(calls).response.raised
    /\ Contains(default_err_msg, Last(calls).response.body)
    /\ Contains(<<"504">>, Last(calls).response.message)

(***************************************************************************)
(* C9.  After a 504, when the polling has seen status 'Installed' the unit *)
(* is recorded in the installed list, and when it has seen 'Error' the     *)
(* unit is recorded in the errored list.                                   *)
(***************************************************************************)
C9_PollStatusDecides ==
    /\ wait_result = "Installed"
          => /\ Len(installed_repositories) > 0
             /\ Last(installed_repositories) = InstalledRecord(HandledUnit)
    /\ wait_result = "Error"
          => /\ Len(errored_repositories) > 0
             /\ Last(errored_repositories).type = "dict"

(***************************************************************************)
(* C10.  When the polling has used up its budget the unit is Failed and    *)
(* its record in the errored list carries a timeout indication.            *)
(***************************************************************************)
C10_TimeoutRecorded ==
    wait_result = "timeout"
        => /\ Len(errored_repositories) > 0
           /\ Last(errored_repositories).type = "dict"
           /\ Contains(<<"timeout">>, Last(errored_repositories).val["error"])

(***************************************************************************)
(* C11.  A call with an empty desired list fails at once with an error:    *)
(* the run never leaves its first statement, it makes no registry call, no *)
(* inventory fetch and no install call, and the only way it ends is the    *)
(* ValueError.                                                             *)
(***************************************************************************)
C11_EmptyListFailsAtOnce ==
    Len(input) = 0
        => /\ pc = "called"
           /\ exc \in { "none", "ValueError" }
           /\ registry_calls = << >>
           /\ inventory_fetches = 0
           /\ calls = << >>
           /\ installed_repositories = << >>
           /\ skipped_repositories = << >>
           /\ errored_repositories = << >>

\* the call with an empty list has been made and has raised
C11_Witness ==
    /\ Len(input) = 0
    /\ pc = "called"
    /\ exc = "ValueError"

\* the unit as complete_repo_information hands it to get_changeset_revisions
\* in the step being taken
CompletedUnit ==
    complete_repo_information(tools[flattened_repos[idx]], default_toolshed, TRUE).repo

\* the step is the normalisation of a valid unit
NormalizeStep ==
    /\ pc = "normalize"
    /\ Len(repository_list_with_none') = Len(repository_list_with_none) + 1

\* the step makes a registry call
RegistryAsked == Len(registry_calls') = Len(registry_calls) + 1

(***************************************************************************)
(* C12.  In the normalisation of a unit, get_changeset_revisions makes no  *)
(* registry call and returns the unit unchanged iff the unit's revision is *)
(* set and force_latest_revision is false; otherwise it makes one registry *)
(* call and, when the answer is not empty, the unit returned is the unit   *)
(* with its revision set to the last element of the answer.                *)
(***************************************************************************)
C12_ResolveRevision ==
    [][ NormalizeStep
        => /\ (~RegistryAsked /\ Last(repository_list_with_none') = CompletedUnit)
                  <=> (/\ CompletedUnit["changeset_revision"] # None
                       /\ ~force_latest_revision)
           /\ registry_calls' # registry_calls => RegistryAsked
           /\ (RegistryAsked /\ Last(registry_calls').answer # << >>)
                  => Last(repository_list_with_none') =
                        [CompletedUnit EXCEPT !["changeset_revision"] =
                            Last(registry_calls').answer[Len(Last(registry_calls').answer)]]
      ]_vars

\* a unit whose revision was set has been resolved anew, the registry
\* having answered with two revisions: it carries the second
C12_Witness ==
    /\ pc = "filter"
    /\ force_latest_revision
    /\ Len(input) = 1
    /\ Has(input[1], "changeset_revision")
    /\ input[1]["changeset_revision"] = R1
    /\ Len(registry_calls) = 1
    /\ registry_calls[1].answer = <<R1, R2>>
    /\ repository_list_with_none[1] # NoneObj
    /\ repository_list_with_none[1]["changeset_revision"] = R2

\* the unit r of the normalised list is None: the registry knew none of its
\* revisions
Dropped(r) == repository_list_with_none[r] = NoneObj

(***************************************************************************)
(* C13.  A unit for which the registry answers with an empty list is       *)
(* dropped: it is never handed to the filter, so it is in neither of the   *)
(* filter's lists, no install call is issued for it and nothing is added   *)
(* to a report list on its account; the step that drops it does not end    *)
(* the run but goes on to the next unit, and the units that are not        *)
(* dropped are the ones the filter distributes.                            *)
(***************************************************************************)
C13_UnresolvedUnitDropped ==
    /\ [](\A r \in 1..Len(repository_list_with_none) :
            Dropped(r)
              => /\ outcomes[r] = << "not_found" >>
                 /\ Occurrences(not_installed_repos \o already_installed_repos, r) = 0
                 /\ \A k \in 1..Len(calls) : calls[k].repository # r)
    /\ [](Filtered
            => /\ Len(repository_list_with_none) = Len(flattened_repos)
               /\ \A r \in 1..Len(repository_list_with_none) :
                     (~Dropped(r) /\ Len(installed_repos) > 0)
                        => Occurrences(not_installed_repos \o already_installed_repos,
                                       r) > 0)
    /\ [][ (NormalizeStep /\ Last(repository_list_with_none') = NoneObj)
            => /\ exc' = "none"
               /\ idx' = idx + 1
               /\ pc' = IF idx = Len(flattened_repos) THEN "filter" ELSE "normalize"
               /\ UNCHANGED << installed_repositories, skipped_repositories,
                               errored_repositories, calls >> ]_vars

\* the first of two units was dropped and an install call has been issued
\* for the second
C13_Witness ==
    /\ Len(repository_list_with_none) = 2
    /\ Dropped(1)
    /\ ~Dropped(2)
    /\ \E k \in 1..Len(calls) : calls[k].repository = 2

\* the dicts the filter compares: the entries of the inventory and the
\* resolved units
ComparedInfos ==
    { installed_repos[k] : k \in 1..Len(installed_repos) }
    \cup { repository_list_with_none[r] :
             r \in { x \in 1..Len(repository_list_with_none) : ~Dropped(x) } }

OtherShed == <<"testtoolshed.g2.bx.psu.edu">>

\* info with the value of one of its keys changed
ChangedIn(info, key, values) ==
    { Put(info, key, v) : v \in { w \in values : w # Get(info, key) } }

\* info, and info with its registry URL given otherwise
WithSheds(info) ==
    { info, Put(info, "tool_shed_url", OtherShed),
      Put(Pop(info, "tool_shed_url"), "tool_shed", ToolShedOf(info)) }

\* one registry URL is a substring of the other
ShedsOverlap(a, b) ==
    \/ Contains(ToolShedOf(a), ToolShedOf(b))
    \/ Contains(ToolShedOf(b), ToolShedOf(a))

(***************************************************************************)
(* C14.  On the dicts the filter is about to compare, and on these with    *)
(* another registry URL: the_same_repository(a, b) equals                  *)
(* the_same_repository(b, a); it is true exactly when revision, name and   *)
(* owner are equal and one registry URL is a substring of the other; and   *)
(* when it is true, changing the revision, the name or the owner of a to a *)
(* different value makes it false.                                         *)
(***************************************************************************)
C14_SameRepositorySymmetric ==
    pc = "filter"
        => \A a0 \in ComparedInfos, b0 \in ComparedInfos :
             \A a \in WithSheds(a0), b \in WithSheds(b0) :
               /\ the_same_repository(a, b) = the_same_repository(b, a)
               /\ the_same_repository(a, b)
                    <=> (/\ Get(a, "changeset_revision") = Get(b, "changeset_revision")
                         /\ Get(a, "name") = Get(b, "name")
                         /\ Get(a, "owner") = Get(b, "owner")
                         /\ ShedsOverlap(a, b))
               /\ the_same_repository(a, b)
                    => \A c \in ChangedIn(a, "changeset_revision", { R1, R2, None })
                                 \cup ChangedIn(a, "name", { NameX, NameY, NameDM })
                                 \cup ChangedIn(a, "owner", { OwnerO, <<"p">> }) :
                          /\ ~the_same_repository(c, b)
                          /\ ~the_same_repository(b, c)

\* the filter is about to compare an entry of the inventory with a unit that
\* is the same repository, the URL of the one being a proper part of the
\* URL of the other
C14_Witness ==
    /\ pc = "filter"
    /\ \E k \in 1..Len(installed_repos), j \in 1..Len(repository_list) :
          LET a == installed_repos[k]
              b == repository_list_with_none[repository_list[j]]
          IN  /\ the_same_repository(a, b)
              /\ Contains(ToolShedOf(a), ToolShedOf(b))
              /\ ~Contains(ToolShedOf(b), ToolShedOf(a))

(***************************************************************************)
(* C15.  A run without a logger issues the install calls that a run with a *)
(* logger issues on the same inputs: as a run with a logger never ends     *)
(* with units to install and no install call made, neither does a run      *)
(* without one.                                                            *)
(***************************************************************************)
C15_NoLoggerSameCalls ==
    (Terminated /\ Len(not_installed_repos) > 0) => Len(calls) > 0

(***************************************************************************)
(* C16.  A run on a non-empty desired list does not end in an unhandled    *)
(* error (stated for runs with a logger and valid specs whose report lists *)
(* hold records only, where no other failure interferes).                  *)
(***************************************************************************)
C16_RunReturnsReport ==
    (/\ Len(input) > 0
     /\ CleanRun
     /\ ~HasStr(installed_repositories)
     /\ ~HasStr(skipped_repositories)
     /\ ~HasStr(errored_repositories))
        => exc = "none"

\* the number of times the outcome `what` was given to a unit
OutcomeCount(what) ==
    Cardinality({ p \in UNION { { <<k, i>> : i \in 1..Len(outcomes[k]) } :
                                  k \in 1..Len(outcomes) } :
                    outcomes[p[1]][p[2]] = what })

\* every element of the list is a dict with the keys given
RecordsWith(list, keys) ==
    \A i \in 1..Len(list) :
        list[i].type = "dict" /\ keys \subseteq DOMAIN list[i].val

(***************************************************************************)
(* C17.  Each report list holds one record per unit with that outcome:     *)
(* its length is the number of such outcomes, and each of its elements is  *)
(* a record with the name, the owner and the revision of the unit (and the *)
(* error message, in the errored list).                                    *)
(***************************************************************************)
C17_OneRecordPerOutcome ==
    /\ Len(installed_repositories) = OutcomeCount("succeeded")
    /\ Len(skipped_repositories) = OutcomeCount("skipped")
    /\ Len(errored_repositories) = OutcomeCount("failed")
    /\ RecordsWith(installed_repositories, { "name", "owner", "revision" })
    /\ RecordsWith(skipped_repositories, { "name", "owner", "changeset_revision" })
    /\ RecordsWith(errored_repositories, { "name", "owner", "revision", "error" })

\* the number of install calls issued for the unit r
CallsFor(r) == Cardinality({ k \in 1..Len(calls) : calls[k].repository = r })

(***************************************************************************)
(* C18.  The install call is issued at most once for each unit of the      *)
(* normalised list, also for a unit that the filter has put several times  *)
(* in not_installed_repos; and no step of the polling issues an install    *)
(* call.                                                                   *)
(***************************************************************************)
C18_InstallCallAtMostOnce ==
    /\ [](\A r \in 1..Len(repository_list_with_none) : CallsFor(r) <= 1)
    /\ [][ pc = "poll" => calls' = calls ]_vars

\* a unit is twice in not_installed_repos; the one install call made for it
\* was answered by a 504 and followed by the polling; its second turn has
\* ended the run without another call
C18_Witness ==
    /\ pc = "install"
    /\ idx = 2
    /\ exc = "KeyError"
    /\ not_installed_repos[1] = not_installed_repos[2]
    /\ Len(calls) = 1
    /\ calls[1].response.raised
    /\ ClassifyError(calls[1].response) = "timeout"

(***************************************************************************)
(* C19.  In wait_for_install exactly one time.sleep(10) is made between a  *)
(* fetch of the inventory and the next one.                                *)
(***************************************************************************)
C19_OneSleepBetweenFetches ==
    (pc = "poll" /\ elapsed > 0) => last_sleeps = 1

(***************************************************************************)
(* C20.  The caller's desired specs have the keys and the values they had  *)
(* when install_tools was called.                                          *)
(***************************************************************************)
C20_DesiredListUnchanged ==
    tools = input

(***************************************************************************)
(* C21.  The counter of the "(i/total)" progress lines stays between 0 and *)
(* the total fixed at the start of the run.                                *)
(***************************************************************************)
C21_CounterWithinTotal ==
    /\ 0 <= counter
    /\ counter <= total_num_repositories

====
